---- MODULE Spec2Model ----
(***************************************************************************)
(* A model of airflow/executors/base_executor.py: BaseExecutor, the        *)
(* admission queue, the heartbeat dispatch loop, the running set and the   *)
(* event buffer.                                                           *)
(*                                                                         *)
(* queued_tasks is a Python dict; it is modelled as the sequence of its    *)
(* items in iteration order, which for a dict is insertion order.          *)
(* running and event_buffer are dicts whose order no code path reads for   *)
(* a decision, so they are functions on their key sets.                    *)
(***************************************************************************)
EXTENDS Integers, Sequences, FiniteSets, TLC

\* ------------------------------------------------------------------ bounds
\* the largest parallelism an executor is constructed with
\* the number of queue_task_instance calls of a run with finitely many
\* submissions
MaxSubmissions == 3

MaxParallelism == 2

\* ------------------------------------------------------------------ inputs
None == "None"
SUCCESS == "success"
FAILED == "failed"
RUNNING == "running"
QUEUED == "queued"
NoError == "none"
KeyError == "KeyError"
NotImplementedError == "NotImplementedError"

\* A task key is (dag_id, task_id, execution_date).
DagIds == {"d1", "d2"}
Keys == {<<"d1", "t1", 1>>, <<"d1", "t2", 1>>, <<"d2", "t1", 1>>}
\* The priority weights tasks are submitted with.
Priorities == {1, 2}
ReportedStates == {SUCCESS, FAILED}
\* dag_ids=None, the default of get_event_buffer, as a value that is no set of
\* dag ids
NoFilter == {None}
DagIdFilters == {NoFilter} \cup SUBSET DagIds

VARIABLES
    parallelism,    \* self.parallelism
    implemented,    \* whether the subclass overrides execute_async
    queued_tasks,   \* self.queued_tasks, items in dict order
    running,        \* self.running: key -> command
    event_buffer,   \* self.event_buffer: key -> state
    last,           \* history: the last call, its arguments and what it did
    in_progress,    \* the locals of a heartbeat that is under way, when its
                    \* steps are taken one by one
    to_submit       \* the submissions the caller has yet to make, when it
                    \* makes finitely many

vars == <<parallelism, implemented, queued_tasks, running, event_buffer, last,
          in_progress, to_submit>>

\* ------------------------------------------------------------ dict helpers
EmptyDict == [k \in {} |-> None]

\* Fault: running.get(key) in place of running.pop(key); the key stays.
DictPop_Get(d, key) == d

\* dict.pop(key) / del on a function-valued dict
DictPop(d, key) == [k \in (DOMAIN d) \ {key} |-> d[k]]

\* d[key] = value on a function-valued dict
DictSet(d, key, value) ==
    [k \in (DOMAIN d) \cup {key} |-> IF k = key THEN value ELSE d[k]]

\* the keys of the ordered dict queued_tasks
QueuedKeys(q) == {q[i].key : i \in 1..Len(q)}

\* queued_tasks[key]
QueuedGet(q, key) == q[CHOOSE i \in 1..Len(q) : q[i].key = key]

\* queued_tasks.pop(key): the other items keep their order
QueuedPop(q, key) == SelectSeq(q, LAMBDA e : e.key # key)

\* queued_tasks[key] = record: a new key goes last, an existing key keeps
\* its position and takes the new value
QueuedSet(q, rec) ==
    IF rec.key \in QueuedKeys(q)
    THEN [i \in 1..Len(q) |-> IF q[i].key = rec.key THEN rec ELSE q[i]]
    ELSE Append(q, rec)

Min(a, b) == IF a <= b THEN a ELSE b

\* Fault: a range that stops one short.
RangeLen_OffByOne(n) == IF n < 1 THEN 0 ELSE n - 1

\* len(range(n))
RangeLen(n) == IF n < 0 THEN 0 ELSE n

\* -------------------------------------------------------------------- init
NoCall == [op |-> "init", err |-> NoError, calls |-> <<>>]

\* No heartbeat is under way. reported holds the states that change_state
\* calls made between two steps of a heartbeat have written and that no
\* get_event_buffer has returned yet (the first one for each key).
Idle == [pc |-> "idle", reported |-> EmptyDict]

Init ==
    /\ parallelism \in 0..MaxParallelism
    /\ implemented = TRUE
    /\ queued_tasks = <<>>
    /\ running = EmptyDict
    /\ event_buffer = EmptyDict
    /\ last = NoCall
    /\ in_progress = Idle
    /\ to_submit = 0

\* ----------------------------------------------------------- queue_command
\* Fault: the guard without `key not in self.running`.
NotKnown_IgnoresRunning(q, r, key) == key \notin QueuedKeys(q)

\* Fault: the guard without `key not in self.queued_tasks`.
NotKnown_IgnoresQueued(q, r, key) == key \notin DOMAIN r

\* the guard of queue_command
NotKnown(q, r, key) == key \notin QueuedKeys(q) /\ key \notin DOMAIN r

\* Fault: an accepted submission also discards the key's buffered event.
queue_command_ClearsEvent(key, command, priority, queue) ==
    /\ queued_tasks' =
          IF NotKnown(queued_tasks, running, key)
          THEN QueuedSet(queued_tasks,
                         [key |-> key, command |-> command,
                          priority |-> priority, queue |-> queue])
          ELSE queued_tasks
    /\ event_buffer' =
          IF NotKnown(queued_tasks, running, key)
          THEN DictPop(event_buffer, key)
          ELSE event_buffer
    /\ UNCHANGED <<parallelism, implemented, running>>
    /\ last' = [op |-> "queue_command", err |-> NoError, calls |-> <<>>,
                key |-> key, command |-> command, priority |-> priority,
                queue |-> queue]

queue_command(key, command, priority, queue) ==
    /\ queued_tasks' =
          IF NotKnown(queued_tasks, running, key)
          THEN QueuedSet(queued_tasks,
                         [key |-> key, command |-> command,
                          priority |-> priority, queue |-> queue])
          ELSE queued_tasks
    /\ UNCHANGED <<parallelism, implemented, running, event_buffer>>
    /\ last' = [op |-> "queue_command", err |-> NoError, calls |-> <<>>,
                key |-> key, command |-> command, priority |-> priority,
                queue |-> queue]

\* The command line task_instance.command(...) builds names the task instance.
Command(key) == <<"airflow run", key[1], key[2], key[3]>>

\* task_instance.task.queue: the queue is an attribute of the task
Queue(key) == IF key[2] = "t1" THEN None ELSE "q1"

\* queue_task_instance for the task instance of `key`, whose task has the
\* total priority weight `priority`
queue_task_instance(key, priority) ==
    queue_command(key, Command(key), priority, Queue(key))

\* --------------------------------------------------------------- heartbeat
\* Fault: the ceiling taken as the number of open slots.
open_slots_IgnoresRunning(p, q, r) ==
    IF p = 0 THEN Len(q) ELSE p

\* Fault: the test for the unlimited ceiling left out.
open_slots_UnlimitedAsZero(p, q, r) ==
    p - Cardinality(DOMAIN r)

\* Fault: one slot of a positive ceiling never handed out.
open_slots_OffByOne(p, q, r) ==
    IF p = 0 THEN Len(q) ELSE p - Cardinality(DOMAIN r) - 1

\* open_slots as heartbeat computes it
open_slots(p, q, r) ==
    IF p = 0 THEN Len(q) ELSE p - Cardinality(DOMAIN r)

\* Fault: the elapsed seconds taken for every running key, the membership
\* test in queued_tasks left out.
total_running_secs_AllRunning(q, r) ==
    IF DOMAIN r = {} THEN {0} ELSE {0, 1}

\* The values the loop over self.running can leave in total_running_secs:
\* 0 unless some running key is also in queued_tasks, and then the elapsed
\* seconds of the last such key (any non-negative number; 1 stands for them).
total_running_secs(q, r) ==
    IF (DOMAIN r) \cap QueuedKeys(q) = {} THEN {0} ELSE {0, 1}

\* Fault: reverse=True left out, the sort ascending.
RECURSIVE InsertSorted_Ascending(_, _)
InsertSorted_Ascending(s, x) ==
    IF s = <<>> THEN <<x>>
    ELSE IF Head(s).priority <= x.priority
         THEN <<Head(s)>> \o InsertSorted_Ascending(Tail(s), x)
         ELSE <<x>> \o s

\* Fault: a descending sort that puts a later item before its equals.
RECURSIVE InsertSorted_Unstable(_, _)
InsertSorted_Unstable(s, x) ==
    IF s = <<>> THEN <<x>>
    ELSE IF Head(s).priority > x.priority
         THEN <<Head(s)>> \o InsertSorted_Unstable(Tail(s), x)
         ELSE <<x>> \o s

\* sorted(items, key=priority, reverse=True): Python's sort is stable, also
\* with reverse=True, so equal priorities keep the order of the input. An
\* item is inserted behind every item whose priority is not lower.
RECURSIVE InsertSorted(_, _)
InsertSorted(s, x) ==
    IF s = <<>> THEN <<x>>
    ELSE IF Head(s).priority >= x.priority
         THEN <<Head(s)>> \o InsertSorted(Tail(s), x)
         ELSE <<x>> \o s

RECURSIVE sorted(_)
sorted(items) ==
    IF items = <<>> THEN <<>>
    ELSE InsertSorted(sorted(SubSeq(items, 1, Len(items) - 1)), items[Len(items)])

\* execute_async: the base class raises NotImplementedError; a subclass that
\* overrides it takes the call. The result is the backend's call log and the
\* error raised.
execute_async(impl, calls, key, command, queue) ==
    IF impl
    THEN [calls |-> Append(calls, <<"execute_async", key, command, queue>>),
          err |-> NoError]
    ELSE [calls |-> calls, err |-> NotImplementedError]

\* ti.refresh_from_db() and the read of ti.state: the state the database holds
\* for the task instance, RUNNING when another job has started it
refresh_from_db(key, db_running) ==
    IF key \in db_running THEN RUNNING ELSE QUEUED

\* Fault: queued_tasks.pop(key) moved into the dispatch branch, so a task
\* found RUNNING stays queued.
DispatchIteration_PopOnDispatch(st, db_running, impl) ==
    LET item == Head(st.sorted_queue)
        rest == Tail(st.sorted_queue)
        ti_state == refresh_from_db(item.key, db_running)
        popped == [st EXCEPT !.sorted_queue = rest,
                             !.popped = Append(@, item),
                             !.ti_states = Append(@, ti_state)]
    IN  IF ti_state # RUNNING
        THEN LET called == execute_async(impl, st.calls, item.key,
                                         item.command, item.queue)
             IN  [popped EXCEPT !.queued_tasks = QueuedPop(@, item.key),
                                !.running = DictSet(@, item.key, item.command),
                                !.calls = called.calls,
                                !.err = called.err]
        ELSE popped

\* Fault: execute_async called without the record's queue name.
DispatchIteration_DropsQueue(st, db_running, impl) ==
    LET item == Head(st.sorted_queue)
        rest == Tail(st.sorted_queue)
        ti_state == refresh_from_db(item.key, db_running)
        popped == [st EXCEPT !.sorted_queue = rest,
                             !.queued_tasks = QueuedPop(@, item.key),
                             !.popped = Append(@, item),
                             !.ti_states = Append(@, ti_state)]
    IN  IF ti_state # RUNNING
        THEN LET called == execute_async(impl, st.calls, item.key,
                                         item.command, None)
             IN  [popped EXCEPT !.running = DictSet(@, item.key, item.command),
                                !.calls = called.calls,
                                !.err = called.err]
        ELSE popped

\* One iteration of the dispatch loop. st holds the loop's view of the
\* executor; db_running is the set of keys whose task instance reads RUNNING
\* after refresh_from_db().
DispatchIteration(st, db_running, impl) ==
    LET item == Head(st.sorted_queue)
        rest == Tail(st.sorted_queue)
        ti_state == refresh_from_db(item.key, db_running)
        popped == [st EXCEPT !.sorted_queue = rest,
                             !.queued_tasks = QueuedPop(@, item.key),
                             !.popped = Append(@, item),
                             !.ti_states = Append(@, ti_state)]
    IN  IF ti_state # RUNNING
        THEN LET called == execute_async(impl, st.calls, item.key,
                                         item.command, item.queue)
             IN  [popped EXCEPT !.running = DictSet(@, item.key, item.command),
                                !.calls = called.calls,
                                !.err = called.err]
        ELSE popped

\* Fault: the call of execute_async wrapped in try/except, the loop going on.
RECURSIVE DispatchLoop_Swallows(_, _, _, _)
DispatchLoop_Swallows(n, st, db_running, impl) ==
    IF n = 0 THEN st
    ELSE DispatchLoop_Swallows(n - 1, DispatchIteration(st, db_running, impl),
                               db_running, impl)

\* for i in range(n): the loop ends early when an iteration raises
RECURSIVE DispatchLoop(_, _, _, _)
DispatchLoop(n, st, db_running, impl) ==
    IF n = 0 \/ st.err # NoError THEN st
    ELSE DispatchLoop(n - 1, DispatchIteration(st, db_running, impl),
                      db_running, impl)

\* Fault: sync() called before the dispatch loop.
sync_BeforeDispatch(st) ==
    IF st.err = NoError THEN [st EXCEPT !.calls = <<<<"sync">>>> \o @] ELSE st

\* sync(): a no-op of the base class, called once when the loop has ended
\* without raising
sync(st) ==
    IF st.err = NoError THEN [st EXCEPT !.calls = Append(@, <<"sync">>)] ELSE st

heartbeat ==
    \E db_running \in SUBSET QueuedKeys(queued_tasks) :
    \E secs \in total_running_secs(queued_tasks, running) :
        LET slots == open_slots(parallelism, queued_tasks, running)
            start == [queued_tasks |-> queued_tasks,
                      running |-> running,
                      sorted_queue |-> sorted(queued_tasks),
                      popped |-> <<>>,
                      ti_states |-> <<>>,
                      calls |-> <<>>,
                      err |-> NoError]
            n == RangeLen(Min(slots, Len(queued_tasks)))
            st == sync(DispatchLoop(n, start, db_running, implemented))
        IN  /\ queued_tasks' = st.queued_tasks
            /\ running' = st.running
            /\ UNCHANGED <<parallelism, implemented, event_buffer>>
            /\ last' = [op |-> "heartbeat", err |-> st.err,
                        running_task_instances |-> Cardinality(DOMAIN running),
                        queued_tasks |-> Len(queued_tasks),
                        open_slots |-> slots,
                        outstanding_tasks_running_secs |-> secs,
                        popped |-> st.popped,
                        ti_states |-> st.ti_states,
                        calls |-> st.calls]

\* ------------------------------------------------------------ change_state
\* Fault: self.running.pop(key, None), which raises nothing for a key that
\* is not running and lets the state be written.
change_state_PopDefault(key, state) ==
    /\ running' = DictPop(running, key)
    /\ event_buffer' = DictSet(event_buffer, key, state)
    /\ last' = [op |-> "change_state", err |-> NoError, calls |-> <<>>,
                key |-> key, state |-> state]
    /\ UNCHANGED <<parallelism, implemented, queued_tasks>>

\* self.running.pop(key) raises KeyError for a key that is not there, before
\* anything is written
change_state(key, state) ==
    /\ IF key \in DOMAIN running
       THEN /\ running' = DictPop(running, key)
            /\ event_buffer' = DictSet(event_buffer, key, state)
            /\ last' = [op |-> "change_state", err |-> NoError, calls |-> <<>>,
                        key |-> key, state |-> state]
       ELSE /\ UNCHANGED <<running, event_buffer>>
            /\ last' = [op |-> "change_state", err |-> KeyError, calls |-> <<>>,
                        key |-> key, state |-> state]
    /\ UNCHANGED <<parallelism, implemented, queued_tasks>>

fail(key) == change_state(key, FAILED)

success(key) == change_state(key, SUCCESS)

\* -------------------------------------------------------- get_event_buffer
\* the entries the filtered branch moves to cleared_events
Cleared(eb, dag_ids) ==
    [k \in {x \in DOMAIN eb : x[1] \in dag_ids} |-> eb[k]]

\* Fault: event_buffer[key] read in place of event_buffer.pop(key).
Kept_All(eb, dag_ids) == eb

\* what the filtered branch leaves in self.event_buffer
Kept(eb, dag_ids) ==
    [k \in {x \in DOMAIN eb : ~(x[1] \in dag_ids)} |-> eb[k]]

\* Fault: the unfiltered branch without `self.event_buffer = dict()`.
get_event_buffer_NoReset(dag_ids) ==
    /\ IF dag_ids = NoFilter
       THEN /\ event_buffer' = event_buffer
            /\ last' = [op |-> "get_event_buffer", err |-> NoError, calls |-> <<>>,
                        dag_ids |-> dag_ids, cleared_events |-> event_buffer]
       ELSE /\ event_buffer' = Kept(event_buffer, dag_ids)
            /\ last' = [op |-> "get_event_buffer", err |-> NoError, calls |-> <<>>,
                        dag_ids |-> dag_ids,
                        cleared_events |-> Cleared(event_buffer, dag_ids)]
    /\ UNCHANGED <<parallelism, implemented, queued_tasks, running>>

get_event_buffer(dag_ids) ==
    /\ IF dag_ids = NoFilter
       THEN /\ event_buffer' = EmptyDict
            /\ last' = [op |-> "get_event_buffer", err |-> NoError, calls |-> <<>>,
                        dag_ids |-> dag_ids, cleared_events |-> event_buffer]
       ELSE /\ event_buffer' = Kept(event_buffer, dag_ids)
            /\ last' = [op |-> "get_event_buffer", err |-> NoError, calls |-> <<>>,
                        dag_ids |-> dag_ids,
                        cleared_events |-> Cleared(event_buffer, dag_ids)]
    /\ UNCHANGED <<parallelism, implemented, queued_tasks, running>>

\* ----------------------------------------------------------- specification
\* The calls made one after the other by the one controller loop that owns
\* the executor, each running to its end before the next.
Next ==
    \/ \E key \in Keys, priority \in Priorities :
          queue_task_instance(key, priority) /\ UNCHANGED <<in_progress, to_submit>>
    \/ heartbeat /\ UNCHANGED <<in_progress, to_submit>>
    \/ \E key \in Keys, state \in ReportedStates :
          change_state(key, state) /\ UNCHANGED <<in_progress, to_submit>>
    \/ \E key \in Keys : success(key) /\ UNCHANGED <<in_progress, to_submit>>
    \/ \E key \in Keys : fail(key) /\ UNCHANGED <<in_progress, to_submit>>
    \/ \E dag_ids \in DagIdFilters :
          get_event_buffer(dag_ids) /\ UNCHANGED <<in_progress, to_submit>>

Spec == Init /\ [][Next]_vars

\* ------------------------------------------------- heartbeat, step by step
\* The heartbeat as the steps another execution context can come between:
\* open_slots and the gauges; the gauge loop, the sort and the range of the
\* for loop; one step for each iteration; sync().
heartbeat_open_slots ==
    /\ in_progress.pc = "idle"
    /\ in_progress' =
          [pc |-> "sort",
           reported |-> in_progress.reported,
           open_slots |-> open_slots(parallelism, queued_tasks, running),
           running_task_instances |-> Cardinality(DOMAIN running),
           queued_tasks |-> Len(queued_tasks)]
    /\ UNCHANGED <<parallelism, implemented, queued_tasks, running,
                   event_buffer, last, to_submit>>

heartbeat_sort ==
    /\ in_progress.pc = "sort"
    /\ \E secs \in total_running_secs(queued_tasks, running) :
          in_progress' =
              [pc |-> "loop",
               reported |-> in_progress.reported,
               open_slots |-> in_progress.open_slots,
               running_task_instances |-> in_progress.running_task_instances,
               queued_tasks |-> in_progress.queued_tasks,
               outstanding_tasks_running_secs |-> secs,
               n |-> RangeLen(Min(in_progress.open_slots, Len(queued_tasks))),
               sorted_queue |-> sorted(queued_tasks),
               popped |-> <<>>,
               ti_states |-> <<>>,
               calls |-> <<>>,
               err |-> NoError]
    /\ UNCHANGED <<parallelism, implemented, queued_tasks, running,
                   event_buffer, last, to_submit>>

\* the record of a heartbeat that has ended, by sync() or by an error
Ended(st) ==
    [op |-> "heartbeat", err |-> st.err,
     running_task_instances |-> in_progress.running_task_instances,
     queued_tasks |-> in_progress.queued_tasks,
     open_slots |-> in_progress.open_slots,
     outstanding_tasks_running_secs |-> in_progress.outstanding_tasks_running_secs,
     popped |-> st.popped,
     ti_states |-> st.ti_states,
     calls |-> st.calls]

heartbeat_dispatch ==
    /\ in_progress.pc = "loop"
    /\ in_progress.n > 0
    /\ \E db_running \in SUBSET {Head(in_progress.sorted_queue).key} :
          LET start == [queued_tasks |-> queued_tasks,
                        running |-> running,
                        sorted_queue |-> in_progress.sorted_queue,
                        popped |-> in_progress.popped,
                        ti_states |-> in_progress.ti_states,
                        calls |-> in_progress.calls,
                        err |-> in_progress.err]
              st == DispatchIteration(start, db_running, implemented)
          IN  /\ queued_tasks' = st.queued_tasks
              /\ running' = st.running
              /\ IF st.err = NoError
                 THEN /\ in_progress' =
                            [in_progress EXCEPT !.n = @ - 1,
                                                !.sorted_queue = st.sorted_queue,
                                                !.popped = st.popped,
                                                !.ti_states = st.ti_states,
                                                !.calls = st.calls]
                      /\ UNCHANGED last
                 ELSE /\ in_progress' =
                            [pc |-> "idle", reported |-> in_progress.reported]
                      /\ last' = Ended(st)
    /\ UNCHANGED <<parallelism, implemented, event_buffer, to_submit>>

heartbeat_sync ==
    /\ in_progress.pc = "loop"
    /\ in_progress.n = 0
    /\ last' = Ended(sync(in_progress))
    /\ in_progress' = [pc |-> "idle", reported |-> in_progress.reported]
    /\ UNCHANGED <<parallelism, implemented, queued_tasks, running,
                   event_buffer, to_submit>>

\* change_state called by the backend from another execution context, as one
\* atomic step, whether a heartbeat is under way or not
change_state_from_backend(key, state) ==
    /\ change_state(key, state)
    /\ in_progress' =
          IF /\ in_progress.pc # "idle"
             /\ last'.err = NoError
             /\ key \notin DOMAIN in_progress.reported
          THEN [in_progress EXCEPT !.reported = DictSet(@, key, state)]
          ELSE in_progress
    /\ UNCHANGED to_submit

\* the calls of the controller loop, which also runs the heartbeat
queue_task_instance_idle(key, priority) ==
    /\ in_progress.pc = "idle"
    /\ queue_task_instance(key, priority)
    /\ UNCHANGED <<in_progress, to_submit>>

get_event_buffer_idle(dag_ids) ==
    /\ in_progress.pc = "idle"
    /\ get_event_buffer(dag_ids)
    /\ in_progress' =
          [in_progress EXCEPT !.reported =
              [key \in DOMAIN @ \cap DOMAIN event_buffer' |-> @[key]]]
    /\ UNCHANGED to_submit

\* The task instances of one DAG run: the keys the interleavings are explored
\* with.
KeysOfDag(dag_id) == {key \in Keys : key[1] = dag_id}

NextConc ==
    \/ \E key \in KeysOfDag("d1"), priority \in Priorities :
          queue_task_instance_idle(key, priority)
    \/ heartbeat_open_slots
    \/ heartbeat_sort
    \/ heartbeat_dispatch
    \/ heartbeat_sync
    \/ \E key \in KeysOfDag("d1"), state \in ReportedStates :
          change_state_from_backend(key, state)
    \/ \E dag_ids \in DagIdFilters : get_event_buffer_idle(dag_ids)

SpecConc == Init /\ [][NextConc]_vars

\* ------------------------------------------------ finitely many submissions
\* The executor of Init in a run whose controller submits at most
\* MaxSubmissions times; to_submit counts the submissions left.
InitLive ==
    /\ parallelism \in 0..MaxParallelism
    /\ implemented = TRUE
    /\ queued_tasks = <<>>
    /\ running = EmptyDict
    /\ event_buffer = EmptyDict
    /\ last = NoCall
    /\ in_progress = Idle
    /\ to_submit = MaxSubmissions

submit(key, priority) ==
    /\ in_progress.pc = "idle"
    /\ to_submit > 0
    /\ queue_task_instance(key, priority)
    /\ to_submit' = to_submit - 1
    /\ UNCHANGED in_progress

\* the periodic heartbeat of the controller loop, one step of it at a time
tick ==
    \/ heartbeat_open_slots
    \/ heartbeat_sort
    \/ heartbeat_dispatch
    \/ heartbeat_sync

\* the backend reports the end of a task it is running
report(key) ==
    /\ key \in DOMAIN running
    /\ \E state \in ReportedStates : change_state(key, state)
    /\ UNCHANGED <<in_progress, to_submit>>

drain(dag_ids) ==
    /\ in_progress.pc = "idle"
    /\ get_event_buffer(dag_ids)
    /\ UNCHANGED <<in_progress, to_submit>>

NextLive ==
    \/ \E key \in Keys, priority \in Priorities : submit(key, priority)
    \/ tick
    \/ \E key \in Keys : report(key)
    \/ \E dag_ids \in DagIdFilters : drain(dag_ids)

\* heartbeat keeps being called, and no key stays in running unreported
FairLive ==
    /\ WF_vars(tick)
    /\ \A key \in Keys : WF_vars(report(key))

SpecLive == InitLive /\ [][NextLive]_vars /\ FairLive

\* A BaseExecutor whose subclass has not overridden execute_async.
InitBase ==
    /\ parallelism \in 0..MaxParallelism
    /\ implemented = FALSE
    /\ queued_tasks = <<>>
    /\ running = EmptyDict
    /\ event_buffer = EmptyDict
    /\ last = NoCall
    /\ in_progress = Idle
    /\ to_submit = 0

SpecBase == InitBase /\ [][Next]_vars

\* ------------------------------------------------------------- properties
\* what the last heartbeat did, read from its record
PoppedKeys(hb) == {hb.popped[i].key : i \in 1..Len(hb.popped)}
ExecutedKeys(hb) ==
    {hb.calls[i][2] : i \in {j \in 1..Len(hb.calls) : hb.calls[j][1] = "execute_async"}}
DroppedKeys(hb) ==
    {hb.popped[i].key : i \in {j \in 1..Len(hb.popped) : hb.ti_states[j] = RUNNING}}
\* the position of key k in a sequence of queue records, 0 when absent
IndexOf(q, k) ==
    IF k \in QueuedKeys(q) THEN CHOOSE i \in 1..Len(q) : q[i].key = k ELSE 0

\* C1: no task key is in queued_tasks and in running at the same time, in
\* every state any serial sequence of calls reaches.
C1_QueuedRunningDisjoint ==
    QueuedKeys(queued_tasks) \cap DOMAIN running = {}

\* a heartbeat has dispatched some keys and left others queued
C1_Witness ==
    /\ last.op = "heartbeat"
    /\ ExecutedKeys(last) # {}
    /\ queued_tasks # <<>>
    /\ DOMAIN running # {}

\* C2: with a ceiling c > 0, |running| <= c in every reachable state.
C2_CeilingEnforced ==
    parallelism > 0 => Cardinality(DOMAIN running) <= parallelism

\* a heartbeat that found the executor at its ceiling with tasks queued
C2_Witness ==
    /\ parallelism > 0
    /\ last.op = "heartbeat"
    /\ last.running_task_instances = parallelism
    /\ last.queued_tasks > 0
    /\ Cardinality(DOMAIN running) = parallelism

\* C3: queue_command raises nothing; for a key already queued or running it
\* leaves queued_tasks, running and event_buffer as they were, and for a key
\* in neither it appends exactly one record, the one submitted, so that
\* every accepted submission makes the queue one longer.
C3_QueueCommandIdempotent ==
    [][last'.op = "queue_command" =>
          /\ last'.err = NoError
          /\ running' = running
          /\ event_buffer' = event_buffer
          /\ IF \/ last'.key \in QueuedKeys(queued_tasks)
                \/ last'.key \in DOMAIN running
             THEN queued_tasks' = queued_tasks
             ELSE /\ Len(queued_tasks') = Len(queued_tasks) + 1
                  /\ SubSeq(queued_tasks', 1, Len(queued_tasks)) = queued_tasks
                  /\ queued_tasks'[Len(queued_tasks')] =
                        [key |-> last'.key, command |-> last'.command,
                         priority |-> last'.priority, queue |-> last'.queue]
    ]_vars

\* a queued key was submitted again with another priority, three keys queued
C3_Witness ==
    /\ last.op = "queue_command"
    /\ last.key \in QueuedKeys(queued_tasks)
    /\ QueuedGet(queued_tasks, last.key).priority # last.priority
    /\ Len(queued_tasks) = Cardinality(Keys)

\* C4: a heartbeat removes exactly k = min(open_slots, |queued_tasks|) keys
\* from queued_tasks, and every key it removes has a priority at least that
\* of every key it leaves queued.
C4_SelectsByPriority ==
    [][last'.op = "heartbeat" =>
          LET k == Min(last'.open_slots, Len(queued_tasks))
              removed == QueuedKeys(queued_tasks) \ QueuedKeys(queued_tasks')
          IN  /\ QueuedKeys(queued_tasks') \subseteq QueuedKeys(queued_tasks)
              /\ Cardinality(removed) = k
              /\ Len(queued_tasks') = Len(queued_tasks) - k
              /\ \A i, j \in 1..Len(queued_tasks) :
                    ( /\ queued_tasks[i].key \in removed
                      /\ queued_tasks[j].key \notin removed )
                    => queued_tasks[i].priority >= queued_tasks[j].priority
    ]_vars

\* ceiling 2, three keys queued: two dispatched, the one left has a lower
\* priority than both
C4_Witness ==
    /\ last.op = "heartbeat"
    /\ parallelism = 2
    /\ last.queued_tasks = 3
    /\ Cardinality(ExecutedKeys(last)) = 2
    /\ Len(queued_tasks) = 1
    /\ \A i \in 1..Len(last.popped) :
          last.popped[i].priority > queued_tasks[1].priority

\* C5: among queued keys of equal priority a heartbeat pops, and calls
\* execute_async for, the key submitted earlier first; when only some of them
\* fit, the earlier ones are the ones popped.
C5_StableOnTies ==
    [][last'.op = "heartbeat" =>
          \A i, j \in 1..Len(queued_tasks) :
             ( /\ i < j
               /\ queued_tasks[i].priority = queued_tasks[j].priority
               /\ queued_tasks[j].key \in PoppedKeys(last') )
             => /\ queued_tasks[i].key \in PoppedKeys(last')
                /\ IndexOf(last'.popped, queued_tasks[i].key)
                      < IndexOf(last'.popped, queued_tasks[j].key)
                /\ \A a, b \in 1..Len(last'.calls) :
                      ( /\ last'.calls[a][1] = "execute_async"
                        /\ last'.calls[b][1] = "execute_async"
                        /\ last'.calls[a][2] = queued_tasks[i].key
                        /\ last'.calls[b][2] = queued_tasks[j].key )
                      => a < b
    ]_vars

\* one slot, two keys of equal priority queued: one popped, its equal left
C5_Witness ==
    /\ last.op = "heartbeat"
    /\ last.open_slots = 1
    /\ Len(last.popped) = 1
    /\ ExecutedKeys(last) = PoppedKeys(last)
    /\ \E i \in 1..Len(queued_tasks) :
          queued_tasks[i].priority = last.popped[1].priority

\* C6: change_state(key, state) for a key in running removes that key alone
\* from running and sets event_buffer[key] = state; queued_tasks, the other
\* running entries and the other event_buffer entries stay. success(key) and
\* fail(key) do this with SUCCESS and FAILED.
C6_ChangeStateEffect ==
    [][ /\ ( /\ last'.op = "change_state"
             /\ last'.key \in DOMAIN running )
           => /\ last'.err = NoError
              /\ DOMAIN running' = (DOMAIN running) \ {last'.key}
              /\ \A k \in DOMAIN running' : running'[k] = running[k]
              /\ DOMAIN event_buffer' = (DOMAIN event_buffer) \cup {last'.key}
              /\ event_buffer'[last'.key] = last'.state
              /\ \A k \in (DOMAIN event_buffer) \ {last'.key} :
                    event_buffer'[k] = event_buffer[k]
              /\ queued_tasks' = queued_tasks
        /\ \A key \in DOMAIN running :
              /\ success(key) => /\ last'.op = "change_state"
                                 /\ last'.key = key
                                 /\ last'.state = SUCCESS
              /\ fail(key) => /\ last'.op = "change_state"
                              /\ last'.key = key
                              /\ last'.state = FAILED
    ]_vars

\* a report for one of two running keys, with another key's event buffered
\* and a task queued
C6_Witness ==
    /\ last.op = "change_state"
    /\ last.err = NoError
    /\ event_buffer[last.key] = last.state
    /\ Cardinality(DOMAIN event_buffer) >= 2
    /\ DOMAIN running # {}
    /\ queued_tasks # <<>>

\* C7: get_event_buffer() without a filter returns the whole event_buffer and
\* leaves it empty; a call right after it returns an empty mapping;
\* queued_tasks and running are not changed by either.
C7_DrainAll ==
    [][ /\ ( /\ last'.op = "get_event_buffer"
             /\ last'.dag_ids = NoFilter )
           => /\ last'.cleared_events = event_buffer
              /\ event_buffer' = EmptyDict
              /\ queued_tasks' = queued_tasks
              /\ running' = running
        /\ ( /\ last.op = "get_event_buffer"
             /\ last.dag_ids = NoFilter
             /\ last'.op = "get_event_buffer" )
           => /\ last'.cleared_events = EmptyDict
              /\ queued_tasks' = queued_tasks
              /\ running' = running
    ]_vars

\* an unfiltered drain that returned the events of two dags
C7_Witness ==
    /\ last.op = "get_event_buffer"
    /\ last.dag_ids = NoFilter
    /\ {k[1] : k \in DOMAIN last.cleared_events} = DagIds
    /\ event_buffer = EmptyDict

\* C8: get_event_buffer(dag_ids) returns exactly the entries whose dag id is
\* in dag_ids, with their states, and leaves exactly the other entries, with
\* their states.
C8_DrainFiltered ==
    [][ ( /\ last'.op = "get_event_buffer"
          /\ last'.dag_ids # NoFilter )
        => LET ret == last'.cleared_events
               ids == last'.dag_ids
           IN  /\ DOMAIN ret = {k \in DOMAIN event_buffer : k[1] \in ids}
               /\ \A k \in DOMAIN ret : ret[k] = event_buffer[k]
               /\ DOMAIN event_buffer' =
                     {k \in DOMAIN event_buffer : k[1] \notin ids}
               /\ \A k \in DOMAIN event_buffer' :
                     event_buffer'[k] = event_buffer[k]
               /\ (DOMAIN ret) \cap (DOMAIN event_buffer') = {}
               /\ (DOMAIN ret) \cup (DOMAIN event_buffer') = DOMAIN event_buffer
    ]_vars

\* a drain for one dag that returned entries and left another dag's entry
C8_Witness ==
    /\ last.op = "get_event_buffer"
    /\ last.dag_ids = {"d1"}
    /\ Cardinality(DOMAIN last.cleared_events) = 2
    /\ DOMAIN event_buffer # {}

\* C9: a key popped by a heartbeat whose refreshed state is RUNNING ends in
\* neither queued_tasks nor running, execute_async is not called for it,
\* event_buffer is unchanged, and no further key is pulled in its place: the
\* heartbeat adds min(open_slots, |queued_tasks|) minus the dropped keys to
\* running.
C9_RaceCheckDrop ==
    [][last'.op = "heartbeat" =>
          LET dropped == DroppedKeys(last')
              k == Min(last'.open_slots, Len(queued_tasks))
          IN  /\ \A key \in dropped :
                    /\ key \notin QueuedKeys(queued_tasks')
                    /\ key \notin DOMAIN running'
                    /\ key \notin ExecutedKeys(last')
              /\ event_buffer' = event_buffer
              /\ Cardinality((DOMAIN running') \ (DOMAIN running))
                    = k - Cardinality(dropped)
              /\ Len(last'.popped) = k
    ]_vars

\* two slots, three keys queued: one found RUNNING and dropped, one
\* dispatched, the third still queued
C9_Witness ==
    /\ last.op = "heartbeat"
    /\ last.open_slots = 2
    /\ last.queued_tasks = 3
    /\ Cardinality(DroppedKeys(last)) = 1
    /\ Cardinality(ExecutedKeys(last)) = 1
    /\ Len(queued_tasks) = 1

\* C10: queue_command and heartbeat leave event_buffer as it is; an entry is
\* written only by change_state for a key that is in running, and an entry
\* is removed only by get_event_buffer.
C10_EventBufferProvenance ==
    [][ /\ last'.op \in {"queue_command", "heartbeat"}
           => event_buffer' = event_buffer
        /\ \A key \in DOMAIN event_buffer' :
              ( \/ key \notin DOMAIN event_buffer
                \/ event_buffer'[key] # event_buffer[key] )
              => /\ last'.op = "change_state"
                 /\ last'.key = key
                 /\ key \in DOMAIN running
        /\ \A key \in DOMAIN event_buffer :
              key \notin DOMAIN event_buffer'
              => last'.op = "get_event_buffer"
    ]_vars

\* a key with a buffered event was submitted again and accepted
C10_Witness ==
    /\ last.op = "queue_command"
    /\ last.key \in DOMAIN event_buffer
    /\ last.key \in QueuedKeys(queued_tasks)
    /\ queued_tasks[Len(queued_tasks)].key = last.key

\* C11: the event buffer is write-once per key: once event_buffer holds a
\* state for a key, no call changes that entry's value before a
\* get_event_buffer call removes it.
C11_WriteOncePerKey ==
    [][\A key \in DOMAIN event_buffer :
          key \in DOMAIN event_buffer'
          => event_buffer'[key] = event_buffer[key]
    ]_vars

\* C12: change_state (and success, fail) for a key that is not in running
\* raises, and leaves queued_tasks, running and event_buffer as they were; a
\* second report of a key directly after its first is such a call.
C12_ChangeStateAbsentKey ==
    [][ /\ ( /\ last'.op = "change_state"
             /\ last'.key \notin DOMAIN running )
           => /\ last'.err = KeyError
              /\ queued_tasks' = queued_tasks
              /\ running' = running
              /\ event_buffer' = event_buffer
        /\ ( /\ last.op = "change_state"
             /\ last.err = NoError
             /\ last'.op = "change_state"
             /\ last'.key = last.key )
           => /\ last'.err = KeyError
              /\ event_buffer' = event_buffer
        /\ \A key \in Keys \ DOMAIN running :
              /\ success(key) => last'.err = KeyError /\ event_buffer' = event_buffer
              /\ fail(key) => last'.err = KeyError /\ event_buffer' = event_buffer
    ]_vars

\* a key whose SUCCESS is buffered was reported FAILED again while another
\* key was running: the report raised and the buffered state stayed
C12_Witness ==
    /\ last.op = "change_state"
    /\ last.err = KeyError
    /\ last.state = FAILED
    /\ last.key \in DOMAIN event_buffer
    /\ event_buffer[last.key] = SUCCESS
    /\ DOMAIN running # {}

\* C13: with execute_async not implemented, a heartbeat that reaches a
\* dispatch (pops a key whose refreshed state is not RUNNING) ends in
\* NotImplementedError at that call: it pops nothing after it and does not call
\* sync. A heartbeat that reaches no dispatch raises nothing.
C13_NotImplementedAborts ==
    [][last'.op = "heartbeat" =>
          LET beat == last'
              n == Len(beat.popped)
              k == Min(beat.open_slots, Len(queued_tasks))
              reached == \E i \in 1..n : beat.ti_states[i] # RUNNING
          IN  /\ reached
                 => /\ beat.err = NotImplementedError
                    /\ beat.ti_states[n] # RUNNING
                    /\ \A i \in 1..(n - 1) : beat.ti_states[i] = RUNNING
                    /\ Len(queued_tasks') = Len(queued_tasks) - n
                    /\ beat.calls = <<>>
              /\ ~reached
                 => /\ beat.err = NoError
                    /\ beat.calls = <<<<"sync">>>>
              /\ k <= 0 => beat.err = NoError /\ n = 0
    ]_vars

\* three open slots, three keys queued: the first found RUNNING and dropped,
\* the second raised, the third was left queued
C13_Witness ==
    /\ ~implemented
    /\ last.op = "heartbeat"
    /\ last.err = NotImplementedError
    /\ last.open_slots = 3
    /\ Len(last.popped) = 2
    /\ Len(queued_tasks) = 1

\* C14: the open-slot count a heartbeat computes is the length of
\* queued_tasks when the ceiling is 0 and max(0, ceiling - |running|) when the
\* ceiling is positive; it is never negative.
C14_OpenSlots ==
    last.op = "heartbeat" =>
        /\ parallelism = 0 => last.open_slots = last.queued_tasks
        /\ parallelism > 0 =>
              last.open_slots =
                  IF parallelism - last.running_task_instances > 0
                  THEN parallelism - last.running_task_instances
                  ELSE 0
        /\ last.open_slots >= 0

\* ceiling 0, three queued and none running: three open slots, two dispatched
C14_Witness ==
    /\ parallelism = 0
    /\ last.op = "heartbeat"
    /\ last.open_slots = 3
    /\ last.running_task_instances = 0
    /\ Cardinality(DOMAIN running) = 2

\* C15: a heartbeat that completes removes exactly min(open slots, queued)
\* entries from queued_tasks, dispatched and dropped ones together; with
\* ceiling 0 queued_tasks is empty afterwards; with a positive ceiling reached,
\* or with nothing queued, queued_tasks, running and event_buffer stay as they
\* were.
C15_RemovesMinOfSlotsAndQueued ==
    [][(last'.op = "heartbeat" /\ last'.err = NoError) =>
          LET slots == IF parallelism = 0
                       THEN Len(queued_tasks)
                       ELSE parallelism - Cardinality(DOMAIN running)
          IN  /\ Len(queued_tasks') = Len(queued_tasks) - Min(slots, Len(queued_tasks))
              /\ Len(last'.popped) = Min(slots, Len(queued_tasks))
              /\ QueuedKeys(queued_tasks') = QueuedKeys(queued_tasks) \ PoppedKeys(last')
              /\ PoppedKeys(last') = ExecutedKeys(last') \cup DroppedKeys(last')
              /\ parallelism = 0 => queued_tasks' = <<>>
              /\ ( \/ ( /\ parallelism > 0
                        /\ Cardinality(DOMAIN running) = parallelism )
                   \/ queued_tasks = <<>> )
                 => /\ queued_tasks' = queued_tasks
                    /\ running' = running
                    /\ event_buffer' = event_buffer
    ]_vars

\* two slots open, three queued: one dispatched and one dropped, one left
C15_Witness ==
    /\ last.op = "heartbeat"
    /\ last.err = NoError
    /\ last.open_slots = 2
    /\ last.queued_tasks = 3
    /\ Len(queued_tasks) = 1
    /\ Cardinality(ExecutedKeys(last)) = 1
    /\ Cardinality(DroppedKeys(last)) = 1

\* C16: a heartbeat that completes calls sync exactly once, after all its
\* execute_async calls, also when it dispatches nothing; no other operation
\* calls sync.
C16_SyncOncePerHeartbeat ==
    LET syncs == {i \in 1..Len(last.calls) : last.calls[i] = <<"sync">>}
    IN  /\ (last.op = "heartbeat" /\ last.err = NoError)
           => /\ syncs = {Len(last.calls)}
              /\ Len(last.calls) >= 1
              /\ \A i \in 1..(Len(last.calls) - 1) :
                    last.calls[i][1] = "execute_async"
        /\ last.op # "heartbeat" => syncs = {}

\* two dispatches, then sync
C16_Witness ==
    /\ last.op = "heartbeat"
    /\ last.err = NoError
    /\ Len(last.calls) = 3
    /\ last.calls[3] = <<"sync">>

\* C17: a key enters running only in a heartbeat that removes it from
\* queued_tasks; the command stored in running and the command and queue given
\* to execute_async are those of the removed record; the record gives one
\* running entry and one execute_async call.
C17_RunningFromQueue ==
    [][ /\ \A key \in DOMAIN running' \ DOMAIN running :
              /\ last'.op = "heartbeat"
              /\ key \in QueuedKeys(queued_tasks)
              /\ key \notin QueuedKeys(queued_tasks')
              /\ LET rec == QueuedGet(queued_tasks, key)
                     mine == {i \in 1..Len(last'.calls) :
                                 /\ last'.calls[i][1] = "execute_async"
                                 /\ last'.calls[i][2] = key}
                 IN  /\ running'[key] = rec.command
                     /\ Cardinality(mine) = 1
                     /\ \A i \in mine :
                           last'.calls[i] =
                               <<"execute_async", key, rec.command, rec.queue>>
        /\ \A key \in DOMAIN running \cap DOMAIN running' :
              running'[key] = running[key]
        /\ last'.op = "heartbeat"
           => ExecutedKeys(last') = DOMAIN running' \ DOMAIN running
    ]_vars

\* one heartbeat dispatched a record with a queue name and one without
C17_Witness ==
    /\ last.op = "heartbeat"
    /\ \E i, j \in 1..Len(last.calls) :
          /\ last.calls[i][1] = "execute_async"
          /\ last.calls[j][1] = "execute_async"
          /\ last.calls[i][4] = "q1"
          /\ last.calls[j][4] = None
          /\ last.calls[i][2] \in DOMAIN running
          /\ last.calls[j][2] \in DOMAIN running

\* C19: the outstanding_tasks_running_secs gauge a heartbeat emits is 0.
C19_RunningSecsGaugeZero ==
    last.op = "heartbeat" => last.outstanding_tasks_running_secs = 0

\* a heartbeat that found keys running and keys queued
C19_Witness ==
    /\ last.op = "heartbeat"
    /\ last.running_task_instances > 0
    /\ last.queued_tasks > 0
    /\ last.outstanding_tasks_running_secs = 0

\* the parts of C18
C18_Disjoint ==
    QueuedKeys(queued_tasks) \cap DOMAIN running = {}

C18_Ceiling ==
    parallelism > 0 => Cardinality(DOMAIN running) <= parallelism

C18_DispatchWithinOpenSlots ==
    /\ in_progress.pc = "loop"
       => Cardinality(ExecutedKeys(in_progress)) <= in_progress.open_slots
    /\ last.op = "heartbeat"
       => Cardinality(ExecutedKeys(last)) <= last.open_slots

C18_ReportedEventKept ==
    \A key \in DOMAIN in_progress.reported :
        /\ key \in DOMAIN event_buffer
        /\ event_buffer[key] = in_progress.reported[key]

\* C18: with change_state running as one atomic step between the steps of a
\* heartbeat, every state keeps queued_tasks and running disjoint and running
\* within a positive ceiling, a heartbeat dispatches no more than the open
\* slots it computed, and a state reported between two steps stays in
\* event_buffer until get_event_buffer returns it.
C18_InterleavedChangeState ==
    /\ C18_Disjoint
    /\ C18_Ceiling
    /\ C18_DispatchWithinOpenSlots
    /\ C18_ReportedEventKept

\* C20: with finitely many submissions, execute_async implemented, heartbeat
\* weakly fair and every running key reported in the end, every key in
\* queued_tasks leaves it, whatever its priority, and queued_tasks ends up
\* empty for good.
C20_QueuedEventuallyLeaves ==
    /\ \A key \in Keys :
          (key \in QueuedKeys(queued_tasks)) ~> (key \notin QueuedKeys(queued_tasks))
    /\ <>[](queued_tasks = <<>>)

\* ceiling 1: the key of the lower priority, queued behind the others, was the
\* last to be dispatched, after all submissions
C20_Witness ==
    /\ parallelism = 1
    /\ to_submit = 0
    /\ queued_tasks = <<>>
    /\ last.op = "heartbeat"
    /\ last.running_task_instances = 0
    /\ Len(last.popped) = 1
    /\ last.popped[1].priority = 1
    /\ last.ti_states = <<QUEUED>>
    /\ Cardinality(DOMAIN event_buffer) = 2

====
